---- MODULE Spec2Model ----
(***************************************************************************)
(* Order-book consistency engine of the Binance Futures feed               *)
(* (cryptofeed/exchange/binance_futures.py, BinanceFutures).               *)
(*                                                                         *)
(* State: the per-symbol maps self.last_update_id and self.forced (the     *)
(* "synced" flag: forced[pair] = TRUE means Synced) and the set of symbols *)
(* whose book is held locally.  One action per call of _check_update_id,   *)
(* one for a snapshot seed delivered by the snapshot collaborator.         *)
(***************************************************************************)
EXTENDS Integers, FiniteSets, Sequences, TLC

\* ---------------------------------------------------------------- bounds
MaxId == 2

Ids == 0..MaxId

Symbols == {"BTCUSDT", "ETHUSDT"}

\* a depth diff as _check_update_id reads it: msg['U'], msg['u'], msg['pu']
Diffs == [U : Ids, u : Ids, pu : Ids]

VARIABLES last_update_id, forced, l2_book, awaiting, call,
          open_interest, handled, pure, stream

\* the book-sync state and its history
engineVars == <<last_update_id, forced, l2_book, awaiting, call>>

\* self.open_interest and the record of the last message_handler call; the
\* input and result of the configuration-time functions; the history of a
\* diff stream fed to one symbol
feedVars == <<open_interest, handled>>

vars == <<last_update_id, forced, l2_book, awaiting, call,
          open_interest, handled, pure, stream>>

\* Python's None, and None where the code otherwise holds a string
None == "None"

NoneStr == <<None>>

\* values of the parts of the state a specification does not use
NoHandled == [kind |-> "none"]

NoPure == [fn |-> "none"]

NoStream == [fed |-> 0]

FeedIdle == open_interest = [s \in Symbols |-> None] /\ handled = NoHandled

\* ------------------------------------------------- _check_update_id, lines 68-83

\* line 70: forced = not self.forced[pair]   (TRUE = symbol is Unsynced at call time)
forcedLocal_Same(fo, pair) == fo[pair]

forcedLocal(fo, pair) == ~fo[pair]

\* line 72: forced and msg['u'] < self.last_update_id[pair]
IsStale_OffByOne(unsynced, msg, last) == unsynced /\ msg.u + 1 < last

IsStale(unsynced, msg, last) == unsynced /\ msg.u < last

\* line 74: forced and msg['U'] <= self.last_update_id[pair] <= msg['u']
IsBracketing_Or(unsynced, msg, last) == unsynced /\ (msg.U <= last \/ last <= msg.u)

IsBracketing(unsynced, msg, last) == unsynced /\ msg.U <= last /\ last <= msg.u

\* line 77: not forced and self.last_update_id[pair] == msg['pu']
IsContinuous_Leq(unsynced, msg, last) == ~unsynced /\ msg.pu <= last

IsContinuous_AnyState(unsynced, msg, last) == last = msg.pu

IsContinuous(unsynced, msg, last) == ~unsynced /\ last = msg.pu

\* The engine state a call works on, and what a call produces.
EngineState(lu, fo, bk) == [last_update_id |-> lu, forced |-> fo, l2_book |-> bk]

Outcome(st, skip, unsynced, resets, warnings) ==
    [state |-> st, skip_update |-> skip, forced |-> unsynced,
     resets |-> resets, warnings |-> warnings]

\* self._reset(): the resync signal.  Its body is in the parent class; here it
\* is the resync action of the design: discard the book held for this symbol
\* and put the symbol back in the Unsynced state.
Reset(st, pair) ==
    [st EXCEPT !.forced[pair] = FALSE, !.l2_book = @ \ {pair}]

\* lines 72-73: stale diff, skipped silently
StaleBranch(st, pair, msg, unsynced) == Outcome(st, TRUE, unsynced, 0, 0)

\* lines 74-76: first bracketing diff
BracketBranch_NoSync(st, pair, msg, unsynced) ==
    Outcome([st EXCEPT !.last_update_id[pair] = msg.u], FALSE, unsynced, 0, 0)

BracketBranch_FirstId(st, pair, msg, unsynced) ==
    Outcome([st EXCEPT !.last_update_id[pair] = msg.U, !.forced[pair] = TRUE],
            FALSE, unsynced, 0, 0)

BracketBranch(st, pair, msg, unsynced) ==
    Outcome([st EXCEPT !.last_update_id[pair] = msg.u, !.forced[pair] = TRUE],
            FALSE, unsynced, 0, 0)

\* lines 77-78: continuity diff
ContinuityBranch_NoUpdate(st, pair, msg, unsynced) == Outcome(st, FALSE, unsynced, 0, 0)

ContinuityBranch(st, pair, msg, unsynced) ==
    Outcome([st EXCEPT !.last_update_id[pair] = msg.u], FALSE, unsynced, 0, 0)

\* lines 79-82: resync, one _reset call, one warning, skip
ResyncBranch_AllSymbols(st, pair, msg, unsynced) ==
    Outcome([st EXCEPT !.forced = [s \in Symbols |-> FALSE], !.l2_book = {}],
            TRUE, unsynced, 1, 1)

ResyncBranch_NoSkip(st, pair, msg, unsynced) ==
    Outcome(Reset(st, pair), FALSE, unsynced, 1, 1)

ResyncBranch(st, pair, msg, unsynced) ==
    Outcome(Reset(st, pair), TRUE, unsynced, 1, 1)

\* lines 68-83, the if / elif chain
CheckUpdateId(st, pair, msg) ==
    LET unsynced == forcedLocal(st.forced, pair)
        last     == st.last_update_id[pair]
    IN  IF IsStale(unsynced, msg, last) THEN StaleBranch(st, pair, msg, unsynced)
        ELSE IF IsBracketing(unsynced, msg, last) THEN BracketBranch(st, pair, msg, unsynced)
        ELSE IF IsContinuous(unsynced, msg, last) THEN ContinuityBranch(st, pair, msg, unsynced)
        ELSE ResyncBranch(st, pair, msg, unsynced)

\* ------------------------------------------------------------- the machine

NoMsg == [U |-> 0, u |-> 0, pu |-> 0]

CallRecord(op, pair, msg, pre, preAwait, dup, out) ==
    [op |-> op, pair |-> pair, msg |-> msg, pre |-> pre, pre_awaiting |-> preAwait,
     duplicate |-> dup,
     skip_update |-> out.skip_update, forced |-> out.forced,
     resets |-> out.resets, warnings |-> out.warnings]

Current == EngineState(last_update_id, forced, l2_book)

\* After subscription: every symbol Unsynced, its book seeded by the first snapshot.
Init ==
    /\ last_update_id \in [Symbols -> Ids]
    /\ forced = [s \in Symbols |-> FALSE]
    /\ l2_book = Symbols
    /\ awaiting = [s \in Symbols |-> FALSE]
    /\ call = CallRecord("init", "BTCUSDT", NoMsg, Current, FALSE, FALSE,
                         Outcome(Current, FALSE, FALSE, 0, 0))
    /\ FeedIdle /\ pure = NoPure /\ stream = NoStream

\* One depth diff for one symbol goes through _check_update_id.
\* History kept for the properties: awaiting[s] is TRUE from a resync of s until
\* a diff bracketing s's lastUpdateId is received in the Unsynced state;
\* call records the call (its pre-state, its diff, what it returned), and
\* whether the diff re-delivers the diff the previous call applied.
CheckUpdate(pair, msg) ==
    LET out == CheckUpdateId(Current, pair, msg)
        resynced(s) == out.resets > 0
                         /\ (s = pair \/ (s \in l2_book /\ s \notin out.state.l2_book))
        bracketed(s) == s = pair /\ ~forced[pair]
                          /\ msg.U <= last_update_id[pair]
                          /\ last_update_id[pair] <= msg.u
        dup == call.op = "check" /\ call.pair = pair /\ call.msg = msg
                 /\ ~call.skip_update
    IN  /\ last_update_id' = out.state.last_update_id
        /\ forced' = out.state.forced
        /\ l2_book' = out.state.l2_book
        /\ awaiting' = [s \in Symbols |->
                          IF resynced(s) THEN TRUE
                          ELSE IF bracketed(s) THEN FALSE
                          ELSE awaiting[s]]
        /\ call' = CallRecord("check", pair, msg, Current, awaiting[pair], dup, out)
        /\ UNCHANGED <<feedVars, pure, stream>>

\* The snapshot collaborator delivers a fresh snapshot for a symbol whose book
\* was discarded: the book is held again and lastUpdateId is the snapshot's.
Snapshot(pair, seed) ==
    /\ pair \notin l2_book
    /\ last_update_id' = [last_update_id EXCEPT ![pair] = seed]
    /\ l2_book' = l2_book \cup {pair}
    /\ UNCHANGED <<forced, awaiting>>
    /\ call' = CallRecord("snapshot", pair, NoMsg, Current, awaiting[pair], FALSE,
                          Outcome(Current, FALSE, FALSE, 0, 0))
    /\ UNCHANGED <<feedVars, pure, stream>>

Next ==
    \/ \E pair \in Symbols, msg \in Diffs : CheckUpdate(pair, msg)
    \/ \E pair \in Symbols, seed \in Ids : Snapshot(pair, seed)

Spec == Init /\ [][Next]_vars

TypeOK ==
    /\ last_update_id \in [Symbols -> Ids]
    /\ forced \in [Symbols -> BOOLEAN]
    /\ l2_book \subseteq Symbols
    /\ awaiting \in [Symbols -> BOOLEAN]

\* ------------------------------------------------------------- properties
\* Vocabulary of the properties, over the recorded call (independent of the
\* operators that model the code).
Checked == call.op = "check"

PreLast == call.pre.last_update_id[call.pair]

PreSynced == call.pre.forced[call.pair]

NowLast == last_update_id[call.pair]

NowSynced == forced[call.pair]

Skipped == call.skip_update

Applied == ~call.skip_update

ResyncedOnce == call.resets = 1 /\ call.warnings = 1

NoResync == call.resets = 0 /\ call.warnings = 0

StaleDiff == call.msg.u < PreLast

BracketingDiff == call.msg.U <= PreLast /\ PreLast <= call.msg.u

ContinuityDiff == call.msg.pu = PreLast

\* C1: a diff checked while the symbol is Synced whose pu differs from the
\* stored lastUpdateId is skipped, leaves the symbol Unsynced, and signals a
\* resync exactly once (one _reset call, one warning).
C1_SyncedGapResyncs ==
    (Checked /\ PreSynced /\ ~ContinuityDiff)
        => (Skipped /\ ~NowSynced /\ ResyncedOnce)

C1_Witness ==
    Checked /\ PreSynced /\ ~ContinuityDiff /\ Skipped /\ ~NowSynced /\ ResyncedOnce

\* C2: a diff checked while the symbol is Synced whose pu equals the stored
\* lastUpdateId is applied, lastUpdateId becomes its u, the symbol stays
\* Synced and no resync is signaled.
C2_SyncedContinuityApplies ==
    (Checked /\ PreSynced /\ ContinuityDiff)
        => (Applied /\ NowLast = call.msg.u /\ NowSynced /\ NoResync)

C2_Witness ==
    Checked /\ PreSynced /\ ContinuityDiff /\ Applied
        /\ NowLast = call.msg.u /\ NowLast # PreLast /\ NowSynced

\* C3: a diff checked while the symbol is Unsynced with U <= lastUpdateId <= u
\* is applied, the symbol becomes Synced and lastUpdateId becomes its u.
C3_UnsyncedBracketApplies ==
    (Checked /\ ~PreSynced /\ BracketingDiff)
        => (Applied /\ NowSynced /\ NowLast = call.msg.u)

C3_Witness ==
    Checked /\ ~PreSynced /\ BracketingDiff /\ Applied /\ NowSynced
        /\ call.msg.U < PreLast /\ PreLast < call.msg.u /\ NowLast = call.msg.u

\* C4: a diff checked while the symbol is Unsynced with u < lastUpdateId is
\* skipped and changes nothing: lastUpdateId, the synced flag and the held
\* book of every symbol are as before, no resync, no warning.
C4_UnsyncedStaleSkipsSilently ==
    (Checked /\ ~PreSynced /\ StaleDiff)
        => (Skipped /\ Current = call.pre /\ NoResync)

C4_Witness ==
    Checked /\ ~PreSynced /\ StaleDiff /\ Skipped /\ Current = call.pre
        /\ call.msg.u + 1 = PreLast

\* C5: a diff checked while the symbol is Unsynced that is neither stale nor
\* bracketing has U > lastUpdateId; a resync is performed, the diff is
\* skipped and the symbol remains Unsynced.
C5_UnsyncedAheadResyncs ==
    (Checked /\ ~PreSynced /\ ~StaleDiff /\ ~BracketingDiff)
        => (call.msg.U > PreLast /\ ResyncedOnce /\ Skipped /\ ~NowSynced)

C5_Witness ==
    Checked /\ ~PreSynced /\ ~StaleDiff /\ ~BracketingDiff
        /\ call.msg.U > PreLast /\ call.resets = 1 /\ Skipped /\ ~NowSynced

\* C6: after a resync of a symbol the symbol stays Unsynced, and no diff for
\* it is applied, until a diff with U <= lastUpdateId <= u is received; a diff
\* fed right after the resync (no snapshot since, so lastUpdateId is the one
\* held before the resync) whose pu equals that lastUpdateId but which does
\* not bracket it is skipped.
C6_ResyncRequiresBracketing ==
    /\ \A s \in Symbols : awaiting[s] => ~forced[s]
    /\ (Checked /\ call.pre_awaiting /\ Applied) => BracketingDiff
    /\ (Checked /\ call.pre_awaiting /\ call.pair \notin call.pre.l2_book
          /\ ContinuityDiff /\ ~BracketingDiff) => Skipped

C6_Witness ==
    Checked /\ call.pre_awaiting /\ call.pair \notin call.pre.l2_book
        /\ ContinuityDiff /\ ~BracketingDiff /\ Skipped /\ ~NowSynced

\* C7 as stated: lastUpdateId never decreases while the symbol is Synced, and
\* every applied diff, the first bracketing one included, leaves lastUpdateId
\* strictly greater than before.
C7_Original ==
    Checked =>
        /\ (PreSynced /\ NowSynced) => NowLast >= PreLast
        /\ Applied => NowLast > PreLast

\* C7 amended: the first bracketing diff leaves lastUpdateId greater than or
\* equal to its previous value (equal when u is the snapshot's lastUpdateId);
\* a continuity diff numbered as the exchange numbers it (pu < u) leaves it
\* strictly greater, so lastUpdateId does not decrease while Synced on such
\* diffs.
C7_MonotoneLastUpdateId ==
    Checked =>
        /\ (Applied /\ ~PreSynced) => NowLast >= PreLast
        /\ (Applied /\ ~PreSynced /\ call.msg.u # PreLast) => NowLast > PreLast
        /\ (Applied /\ PreSynced /\ call.msg.pu < call.msg.u) => NowLast > PreLast
        /\ (PreSynced /\ NowSynced /\ call.msg.pu < call.msg.u) => NowLast >= PreLast

C7_Witness ==
    Checked /\ Applied /\ ~PreSynced /\ call.msg.u = PreLast
        /\ call.msg.U < PreLast /\ NowLast = PreLast /\ NowSynced

\* C8 as stated: a re-delivered applied diff, or a diff older than
\* lastUpdateId, is skipped in either state with no resync and no change of
\* lastUpdateId or of the synced flag.
C8_Original ==
    (Checked /\ (call.duplicate \/ StaleDiff))
        => (Skipped /\ NoResync /\ NowLast = PreLast /\ NowSynced = PreSynced)

\* C8 amended: stale-update skipping exists only in the Unsynced state, where
\* a diff with u < lastUpdateId is skipped with no resync and no state change.
\* In the Synced state a re-delivered or older diff (pu < u <= lastUpdateId,
\* hence pu # lastUpdateId) is skipped as a gap: it triggers a resync and the
\* symbol becomes Unsynced.
C8_StaleSkipOnlyUnsynced ==
    Checked =>
        /\ (~PreSynced /\ StaleDiff)
              => (Skipped /\ NoResync /\ NowLast = PreLast /\ ~NowSynced)
        /\ (PreSynced /\ call.msg.pu < call.msg.u /\ call.msg.u <= PreLast)
              => (Skipped /\ ResyncedOnce /\ ~NowSynced)

C8_Witness ==
    Checked /\ call.duplicate /\ PreSynced /\ call.msg.pu < call.msg.u
        /\ call.msg.u = PreLast /\ Skipped /\ call.resets = 1 /\ ~NowSynced

C10_ReturnedFlags ==
    Checked =>
        /\ call.skip_update = IF PreSynced THEN ~ContinuityDiff ELSE ~BracketingDiff
        /\ call.forced = ~PreSynced
        /\ (Applied /\ call.forced) => (BracketingDiff /\ NowLast = call.msg.u)
        /\ (Applied /\ ~call.forced) => (ContinuityDiff /\ NowLast = call.msg.u)

C10_Witness ==
    Checked /\ Applied /\ call.forced /\ NowSynced /\ BracketingDiff

\* ------------------------------------------- strings of the configuration code
\* A Python string is modelled as a sequence of tokens: a separator character
\* ('_', '-', '@', '/') is one token, a run of other characters is one token.

\* the book-sync state of a specification that does not use it
EngineIdle ==
    /\ last_update_id = [s \in Symbols |-> 0]
    /\ forced = [s \in Symbols |-> FALSE]
    /\ l2_book = {}
    /\ awaiting = [s \in Symbols |-> FALSE]
    /\ call = CallRecord("init", "BTCUSDT", NoMsg, Current, FALSE, FALSE,
                         Outcome(Current, FALSE, FALSE, 0, 0))

\* str.split(sep): the segments between the occurrences of sep, empty ones kept
RECURSIVE SplitFrom(_, _, _, _)
SplitFrom(str, sep, i, cur) ==
    IF i > Len(str) THEN <<cur>>
    ELSE IF str[i] = sep THEN <<cur>> \o SplitFrom(str, sep, i + 1, <<>>)
    ELSE SplitFrom(str, sep, i + 1, Append(cur, str[i]))

Split(str, sep) == SplitFrom(str, sep, 1, <<>>)

\* ------------------------------------- BinanceFuturesInstrument, lines 21-34
MaxNameLen == 5

NameTokens == {"BTC", "USDT", "210625", "-", "_"}

RECURSIVE SeqsUpTo(_, _)
SeqsUpTo(S, n) ==
    IF n = 0 THEN {<<>>}
    ELSE LET shorter == SeqsUpTo(S, n - 1)
         IN  shorter \cup {Append(q, t) : q \in {r \in shorter : Len(r) = n - 1}, t \in S}

InstrumentNames == SeqsUpTo(NameTokens, MaxNameLen)

PERPETURAL == "perpetual"

FUTURE == "future"

\* lines 22-34; pair_arr[1] of a pair without '-' raises IndexError
BinanceFuturesInstrument_SplitName(instrument_name) ==
    LET instrument_properties == Split(instrument_name, "_")
        pair_arr == Split(instrument_name, "-")
    IN  IF Len(pair_arr) < 2 THEN [raised |-> TRUE]
        ELSE [raised |-> FALSE,
              instrument_name |-> instrument_name,
              pair |-> instrument_properties[1],
              base |-> pair_arr[1],
              quote |-> pair_arr[2],
              instrument_type |-> IF Len(instrument_properties) = 1
                                    THEN PERPETURAL ELSE FUTURE,
              expiry_date_str |-> IF Len(instrument_properties) = 1
                                    THEN NoneStr ELSE instrument_properties[2]]

BinanceFuturesInstrument(instrument_name) ==
    LET instrument_properties == Split(instrument_name, "_")
        pair_arr == Split(instrument_properties[1], "-")
    IN  IF Len(pair_arr) < 2 THEN [raised |-> TRUE]
        ELSE [raised |-> FALSE,
              instrument_name |-> instrument_name,
              pair |-> instrument_properties[1],
              base |-> pair_arr[1],
              quote |-> pair_arr[2],
              instrument_type |-> IF Len(instrument_properties) = 1
                                    THEN PERPETURAL ELSE FUTURE,
              expiry_date_str |-> IF Len(instrument_properties) = 1
                                    THEN NoneStr ELSE instrument_properties[2]]

InitInstrument ==
    /\ EngineIdle /\ FeedIdle /\ stream = NoStream
    /\ \E name \in InstrumentNames : pure = [fn |-> "instrument", name |-> name, done |-> FALSE]

\* BinanceFuturesInstrument(name) is constructed
NewInstrument ==
    /\ pure.fn = "instrument" /\ ~pure.done
    /\ pure' = [fn |-> "instrument", name |-> pure.name, done |-> TRUE,
                result |-> BinanceFuturesInstrument(pure.name)]
    /\ UNCHANGED <<engineVars, feedVars, stream>>

NextInstrument == NewInstrument

SpecInstrument == InitInstrument /\ [][NextInstrument]_vars

\* C18: for an identifier BASE-QUOTE or BASE-QUOTE_EXPIRY (BASE, QUOTE, EXPIRY
\* free of '-' and '_') the instrument has pair BASE-QUOTE, base BASE and
\* quote QUOTE; it is a Future exactly when the identifier has a second
\* '_'-delimited segment, otherwise Perpetual, and the expiry label is
\* present only for a Future and is that second segment.
IsWord(str) == \A i \in 1..Len(str) : str[i] \notin {"-", "_"}

Parsed == pure.fn = "instrument" /\ pure.done

C18_InstrumentParsing ==
    Parsed =>
        LET name == pure.name
            n == Len(name)
            r == pure.result
        IN  /\ \A i \in 1..n :
                 (name[i] = "-" /\ IsWord(SubSeq(name, 1, i - 1))
                                /\ IsWord(SubSeq(name, i + 1, n)))
                   => /\ ~r.raised
                      /\ r.pair = name
                      /\ r.base = SubSeq(name, 1, i - 1)
                      /\ r.quote = SubSeq(name, i + 1, n)
                      /\ r.instrument_type = PERPETURAL
                      /\ r.expiry_date_str = NoneStr
            /\ \A i \in 1..n, j \in 1..n :
                 (i < j /\ name[i] = "-" /\ name[j] = "_"
                        /\ IsWord(SubSeq(name, 1, i - 1))
                        /\ IsWord(SubSeq(name, i + 1, j - 1))
                        /\ IsWord(SubSeq(name, j + 1, n)))
                   => /\ ~r.raised
                      /\ r.pair = SubSeq(name, 1, j - 1)
                      /\ r.base = SubSeq(name, 1, i - 1)
                      /\ r.quote = SubSeq(name, i + 1, j - 1)
                      /\ r.instrument_type = FUTURE
                      /\ r.expiry_date_str = SubSeq(name, j + 1, n)

C18_Witness ==
    /\ Parsed /\ pure.name = <<"BTC", "-", "USDT", "_", "210625">>
    /\ pure.result.instrument_type = FUTURE
    /\ pure.result.base = <<"BTC">> /\ pure.result.quote = <<"USDT">>
    /\ pure.result.expiry_date_str = <<"210625">>

\* ------------------------------------------------ _address, lines 52-66
MaxChannels == 2

MaxSymbols == 2

\* cryptofeed.defines, line 15
TICKER == <<"ticker">>

OPEN_INTEREST == <<"open_interest">>

ChannelNames == {TICKER, OPEN_INTEREST, <<"aggTrade">>, <<"depth", "@", "100ms">>}

ConfigSymbols == {<<"BTCUSDT">>, <<"ETHUSDT">>}

\* str.lower() and str.upper(), token by token
LowerToken(t) ==
    CASE t = "BTCUSDT" -> "btcusdt"
      [] t = "ETHUSDT" -> "ethusdt"
      [] OTHER -> t

UpperToken(t) ==
    CASE t = "btcusdt" -> "BTCUSDT"
      [] t = "ethusdt" -> "ETHUSDT"
      [] OTHER -> t

Lower(str) == [i \in 1..Len(str) |-> LowerToken(str[i])]

Upper(str) == [i \in 1..Len(str) |-> UpperToken(str[i])]

\* lists without repetition, as Feed keeps channels and symbols
NoRepeat(q) == \A i, j \in 1..Len(q) : q[i] = q[j] => i = j

ListsOf(S, n) == {q \in SeqsUpTo(S, n) : NoRepeat(q)}

\* A configuration is either global (self.channels and self.symbols, empty
\* self.subscription) or per channel (self.subscription: channel -> symbols,
\* in insertion order, with self.channels and self.symbols empty).
GlobalConfigs ==
    {[channels |-> c, symbols |-> s, subscription |-> <<>>] :
        c \in ListsOf(ChannelNames, MaxChannels),
        s \in ListsOf(ConfigSymbols, MaxSymbols) \ {<<>>}}

SubscriptionConfigs ==
    {[channels |-> <<>>, symbols |-> <<>>,
      subscription |-> [i \in 1..Len(c) |-> [chan |-> c[i], symbols |-> f[i]]]] :
        c \in ListsOf(ChannelNames, MaxChannels) \ {<<>>},
        f \in [1..MaxChannels -> ListsOf(ConfigSymbols, MaxSymbols)]}

Configs == GlobalConfigs \cup SubscriptionConfigs

ws_endpoint == <<"wss://fstream.binance.com">>

rest_endpoint == <<"https://fapi.binance.com/fapi/v1">>

\* self.subscription[chan]
SubscriptionOf(cfg, chan) ==
    LET i == CHOOSE i \in 1..Len(cfg.subscription) : cfg.subscription[i].chan = chan
    IN  cfg.subscription[i].symbols

SubscriptionKeys(cfg) == [i \in 1..Len(cfg.subscription) |-> cfg.subscription[i].chan]

\* line 54: self.channels if not self.subscription else self.subscription
AddressChannels(cfg) ==
    IF cfg.subscription = <<>> THEN cfg.channels ELSE SubscriptionKeys(cfg)

\* line 57: self.symbols if not self.subscription else self.subscription[chan]
AddressSymbols(cfg, chan) ==
    IF cfg.subscription = <<>> THEN cfg.symbols ELSE SubscriptionOf(cfg, chan)

\* lines 58-62: one stream name, with its trailing '/'
StreamName_NoLower(pair, chan) ==
    IF chan = TICKER THEN pair \o <<"@", "bookTicker", "/">>
    ELSE pair \o <<"@">> \o chan \o <<"/">>

StreamName(pair, chan) ==
    IF chan = TICKER THEN Lower(pair) \o <<"@", "bookTicker", "/">>
    ELSE Lower(pair) \o <<"@">> \o chan \o <<"/">>

\* lines 57-63: the inner loop over the symbols of one channel
RECURSIVE AddPairs(_, _, _, _)
AddPairs(address, pairs, chan, i) ==
    IF i > Len(pairs) THEN address
    ELSE AddPairs(address \o StreamName(pairs[i], chan), pairs, chan, i + 1)

\* lines 54-63: the outer loop over the channels
RECURSIVE AddChannels_WithOpenInterest(_, _, _, _)
AddChannels_WithOpenInterest(address, cfg, chans, i) ==
    IF i > Len(chans) THEN address
    ELSE AddChannels_WithOpenInterest(
             AddPairs(address, AddressSymbols(cfg, chans[i]), chans[i], 1),
             cfg, chans, i + 1)

RECURSIVE AddChannels(_, _, _, _)
AddChannels(address, cfg, chans, i) ==
    IF i > Len(chans) THEN address
    ELSE IF chans[i] = OPEN_INTEREST THEN AddChannels(address, cfg, chans, i + 1)
    ELSE AddChannels(AddPairs(address, AddressSymbols(cfg, chans[i]), chans[i], 1),
                     cfg, chans, i + 1)

\* lines 52-66
Address(cfg) ==
    LET start == ws_endpoint \o <<"/stream?streams=">>
        address == AddChannels(start, cfg, AddressChannels(cfg), 1)
    IN  IF address = start THEN NoneStr
        ELSE SubSeq(address, 1, Len(address) - 1)

\* ------------------------------------------------ connect, lines 105-114

\* super().connect(): the multiplexed streaming connection on self.address,
\* with the standard subscribe / message_handler pair
SuperConnect(address) ==
    <<[kind |-> "stream", targets |-> {address},
       subscribe |-> "subscribe", handler |-> "message_handler"]>>

\* line 110: self.channels or self.subscription, as a set
ConnectChannels(cfg) ==
    IF cfg.channels # <<>> THEN {cfg.channels[i] : i \in 1..Len(cfg.channels)}
    ELSE {cfg.subscription[i].chan : i \in 1..Len(cfg.subscription)}

\* line 112: set(self.symbols or self.subscription[chan])
ConnectSymbols(cfg, chan) ==
    LET l == IF cfg.symbols # <<>> THEN cfg.symbols ELSE SubscriptionOf(cfg, chan)
    IN  {l[i] : i \in 1..Len(l)}

\* lines 112-113: the polling connection
PollingConnection(cfg, chan) ==
    [kind |-> "poll",
     targets |-> {rest_endpoint \o <<"/openInterest?symbol=">> \o pair :
                     pair \in ConnectSymbols(cfg, chan)},
     subscribe |-> "subscribe", handler |-> "message_handler"]

\* lines 105-114
Connect_AlwaysStream(cfg, address) ==
    LET ret == SuperConnect(address)
    IN  IF OPEN_INTEREST \in ConnectChannels(cfg)
          THEN Append(ret, PollingConnection(cfg, OPEN_INTEREST))
          ELSE ret

Connect(cfg, address) ==
    LET ret == IF address # NoneStr THEN SuperConnect(address) ELSE <<>>
    IN  IF OPEN_INTEREST \in ConnectChannels(cfg)
          THEN Append(ret, PollingConnection(cfg, OPEN_INTEREST))
          ELSE ret

InitConfig ==
    /\ EngineIdle /\ FeedIdle /\ stream = NoStream
    /\ \E cfg \in Configs :
         pure = [fn |-> "config", cfg |-> cfg, stage |-> "new",
                 address |-> NoneStr, connections |-> <<>>]

\* __init__, line 45: self.address = self._address()
BuildAddress ==
    /\ pure.fn = "config" /\ pure.stage = "new"
    /\ pure' = [pure EXCEPT !.stage = "built", !.address = Address(pure.cfg)]
    /\ UNCHANGED <<engineVars, feedVars, stream>>

\* connect() on the constructed feed
DoConnect ==
    /\ pure.fn = "config" /\ pure.stage = "built"
    /\ pure' = [pure EXCEPT !.stage = "connected",
                            !.connections = Connect(pure.cfg, pure.address)]
    /\ UNCHANGED <<engineVars, feedVars, stream>>

NextConfig == BuildAddress \/ DoConnect

SpecConfig == InitConfig /\ [][NextConfig]_vars

\* What a configuration asks for: the (channel, symbol) pairs, channel by channel.
ConfiguredChannels(cfg) ==
    IF cfg.subscription = <<>>
      THEN {cfg.channels[i] : i \in 1..Len(cfg.channels)}
      ELSE {cfg.subscription[i].chan : i \in 1..Len(cfg.subscription)}

ConfiguredSymbols(cfg, chan) ==
    IF cfg.subscription = <<>>
      THEN {cfg.symbols[i] : i \in 1..Len(cfg.symbols)}
      ELSE UNION {{cfg.subscription[i].symbols[k] : k \in 1..Len(cfg.subscription[i].symbols)} :
                     i \in {j \in 1..Len(cfg.subscription) : cfg.subscription[j].chan = chan}}

ExpectedStreams(cfg) ==
    {Lower(s) \o <<"@">> \o (IF c = TICKER THEN <<"bookTicker">> ELSE c) :
        <<c, s>> \in {p \in ConfiguredChannels(cfg) \X ConfigSymbols :
                         p[1] # OPEN_INTEREST /\ p[2] \in ConfiguredSymbols(cfg, p[1])}}

AddressBuilt == pure.fn = "config" /\ pure.stage # "new"

\* C16: the address is the endpoint followed by exactly one stream name per
\* (channel other than open interest, symbol) pair of the configuration,
\* <lower-cased symbol>@bookTicker for the ticker channel and
\* <lower-cased symbol>@<channel> otherwise, separated by '/' with no trailing
\* '/'; open interest contributes nothing, and with no stream name the result
\* is None.
C16_StreamAddress ==
    AddressBuilt =>
        LET expected == ExpectedStreams(pure.cfg)
            n == Len(pure.address)
        IN  IF expected = {} THEN pure.address = NoneStr
            ELSE /\ pure.address # NoneStr
                 /\ SubSeq(pure.address, 1, 2) = ws_endpoint \o <<"/stream?streams=">>
                 /\ LET names == Split(SubSeq(pure.address, 3, n), "/")
                    IN  /\ Len(names) = Cardinality(expected)
                        /\ {names[i] : i \in 1..Len(names)} = expected

C16_Witness ==
    /\ AddressBuilt
    /\ pure.cfg.channels = <<OPEN_INTEREST, TICKER>>
    /\ pure.cfg.symbols = <<<<"BTCUSDT">>, <<"ETHUSDT">>>>
    /\ pure.address = ws_endpoint \o <<"/stream?streams=",
                         "btcusdt", "@", "bookTicker", "/", "ethusdt", "@", "bookTicker">>

Connected == pure.fn = "config" /\ pure.stage = "connected"

StreamConnections ==
    {i \in 1..Len(pure.connections) : pure.connections[i].kind = "stream"}

PollingConnections ==
    {i \in 1..Len(pure.connections) : pure.connections[i].kind = "poll"}

\* C17: connect returns the streaming connection exactly when an address
\* exists, and exactly one polling connection exactly when open interest is
\* configured (none otherwise); the polling connection targets one URL per
\* symbol configured for open interest and its handler is message_handler.
C17_ConnectionSet ==
    Connected =>
        /\ Cardinality(StreamConnections) = IF pure.address # NoneStr THEN 1 ELSE 0
        /\ \A i \in StreamConnections : pure.connections[i].targets = {pure.address}
        /\ Cardinality(PollingConnections) =
              IF OPEN_INTEREST \in ConfiguredChannels(pure.cfg) THEN 1 ELSE 0
        /\ \A i \in PollingConnections :
              /\ pure.connections[i].targets =
                    {rest_endpoint \o <<"/openInterest?symbol=">> \o s :
                        s \in ConfiguredSymbols(pure.cfg, OPEN_INTEREST)}
              /\ pure.connections[i].handler = "message_handler"
        /\ Len(pure.connections) =
              Cardinality(StreamConnections) + Cardinality(PollingConnections)

C17_Witness ==
    /\ Connected
    /\ pure.cfg.channels = <<OPEN_INTEREST>>
    /\ pure.address = NoneStr
    /\ Len(pure.connections) = 1
    /\ pure.connections[1].kind = "poll"
    /\ Cardinality(pure.connections[1].targets) = Len(pure.cfg.symbols)

\* ------------------------------- message_handler and _open_interest, lines 85-145
MaxFeedId == 1

FeedIds == 0..MaxFeedId

\* a sequence field that the payload does not carry
AbsentId == -1

OIValues == {"10659.509", "10660.000", "10661.250"}

\* the polled value in the runs that interleave both connections
FeedOIValues == {"10659.509"}

KnownTags == {"bookTicker", "depthUpdate", "aggTrade", "forceOrder", "markPriceUpdate", "kline"}

\* A decoded JSON object is the set of its keys and the values under them (a
\* value under a key the object lacks is a filler that nothing reads).
Payload(keys, e, U, u, pu) == [keys |-> keys, e |-> e, U |-> U, u |-> u, pu |-> pu]

NoData == Payload({}, None, AbsentId, AbsentId, AbsentId)

Message(keys, oi, symbol, strm, data) ==
    [keys |-> keys, openInterest |-> oi, symbol |-> symbol, stream |-> strm, data |-> data]

\* <symbol>@<channel>, the stream names _address asks for
StreamOf(s, tag) ==
    <<LowerToken(s), "@">> \o (IF tag = "depthUpdate" THEN <<"depth", "@", "100ms">>
                               ELSE <<tag>>)

TaggedPayloads == {Payload({"e"}, t, AbsentId, AbsentId, AbsentId) :
                      t \in (KnownTags \ {"depthUpdate"}) \cup {"unknownEvent"}}

DepthPayloads == {Payload({"e", "U", "u", "pu"}, "depthUpdate", U, u, pu) :
                     U \in FeedIds, u \in FeedIds, pu \in FeedIds}

\* polled responses {openInterest, symbol, time}, and the same carrying the
\* keys of an envelope as well
OpenInterestMessages(values) ==
    {Message({"openInterest", "symbol", "time"}, v, s, <<>>, NoData) :
        s \in Symbols, v \in values}
    \cup
    {Message({"openInterest", "symbol", "time", "stream", "data"}, v, s,
             StreamOf(s, "depthUpdate"),
             Payload({"e", "U", "u", "pu"}, "depthUpdate", 0, 0, 0)) :
        s \in Symbols, v \in values}

Envelope(s, data) ==
    Message({"stream", "data"}, None, None,
            StreamOf(s, IF "e" \in data.keys THEN data.e ELSE "depthUpdate"), data)

FeedMessages ==
    OpenInterestMessages(FeedOIValues)
    \cup {Envelope(s, d) : s \in Symbols, d \in TaggedPayloads \cup DepthPayloads \cup {NoData}}

\* What handling one message produced; check is what _check_update_id returned,
\* when it was called and returned.
NoCheck == [called |-> FALSE, skip_update |-> FALSE, forced |-> FALSE]

Result(st, cache, pair, handlers, warnings, resets, raised, events) ==
    [state |-> st, open_interest |-> cache, pair |-> pair, handlers |-> handlers,
     warnings |-> warnings, resets |-> resets, raised |-> raised, events |-> events,
     check |-> NoCheck]

Event(channel, symbol, value) == [channel |-> channel, symbol |-> symbol, value |-> value]

\* lines 93-103: _open_interest
OpenInterestHandler_Always(st, cache, msg) ==
    Result(st, [cache EXCEPT ![msg.symbol] = msg.openInterest], NoneStr,
           <<"_open_interest">>, 0, 0, "none",
           <<Event("open_interest", msg.symbol, msg.openInterest)>>)

OpenInterestHandler_NoCacheUpdate(st, cache, msg) ==
    IF msg.openInterest # cache[msg.symbol]
      THEN Result(st, cache, NoneStr, <<"_open_interest">>, 0, 0, "none",
                  <<Event("open_interest", msg.symbol, msg.openInterest)>>)
      ELSE Result(st, cache, NoneStr, <<"_open_interest">>, 0, 0, "none", <<>>)

OpenInterestHandler_TouchesSync(st, cache, msg) ==
    IF msg.openInterest # cache[msg.symbol]
      THEN Result([st EXCEPT !.forced[msg.symbol] = FALSE],
                  [cache EXCEPT ![msg.symbol] = msg.openInterest], NoneStr,
                  <<"_open_interest">>, 0, 0, "none",
                  <<Event("open_interest", msg.symbol, msg.openInterest)>>)
      ELSE Result(st, cache, NoneStr, <<"_open_interest">>, 0, 0, "none", <<>>)

OpenInterestHandler(st, cache, msg) ==
    IF "symbol" \notin msg.keys
      THEN Result(st, cache, NoneStr, <<"_open_interest">>, 0, 0, "KeyError", <<>>)
    ELSE IF msg.openInterest # cache[msg.symbol]
      THEN Result(st, [cache EXCEPT ![msg.symbol] = msg.openInterest], NoneStr,
                  <<"_open_interest">>, 0, 0, "none",
                  <<Event("open_interest", msg.symbol, msg.openInterest)>>)
      ELSE Result(st, cache, NoneStr, <<"_open_interest">>, 0, 0, "none", <<>>)

\* line 120: 'openInterest' in msg
IsOpenInterest_NoEnvelope(msg) == "openInterest" \in msg.keys /\ "stream" \notin msg.keys

IsOpenInterest(msg) == "openInterest" \in msg.keys

\* str.split(sep, 1): at most one split, at the first sep
RECURSIVE FirstIndex(_, _, _)
FirstIndex(str, sep, i) ==
    IF i > Len(str) THEN 0
    ELSE IF str[i] = sep THEN i
    ELSE FirstIndex(str, sep, i + 1)

SplitOnce(str, sep) ==
    LET i == FirstIndex(str, sep, 1)
    IN  IF i = 0 THEN <<str>>
        ELSE <<SubSeq(str, 1, i - 1), SubSeq(str, i + 1, Len(str))>>

\* lines 126 and 129: pair, _ = msg['stream'].split('@', 1); pair = pair.upper()
StreamPair_LastSplit(strm) ==
    LET parts == Split(strm, "@")
    IN  Upper(SubSeq(strm, 1, Len(strm) - Len(parts[Len(parts)]) - 1))

StreamPair(strm) == Upper(SplitOnce(strm, "@")[1])

\* lines 68-83 on a payload that may lack U, u or pu: the subscripts msg['u'],
\* msg['U'], msg['pu'] raise KeyError, in the order the conditions and the
\* assignments evaluate them
CheckRaises(st, pair, data) ==
    LET unsynced == forcedLocal(st.forced, pair)
        last     == st.last_update_id[pair]
    IN  IF unsynced
          THEN \/ "u" \notin data.keys
               \/ (~(data.u < last) /\ "U" \notin data.keys)
          ELSE \/ "pu" \notin data.keys
               \/ (data.pu = last /\ "u" \notin data.keys)

CheckedUpdate_GetDefault(st, pair, data) ==
    [raised |-> FALSE,
     out |-> CheckUpdateId(st, pair, [U |-> data.U, u |-> data.u, pu |-> data.pu])]

CheckedUpdate(st, pair, data) ==
    IF CheckRaises(st, pair, data)
      THEN [raised |-> TRUE, out |-> Outcome(st, FALSE, FALSE, 0, 0)]
      ELSE [raised |-> FALSE,
            out |-> CheckUpdateId(st, pair, [U |-> data.U, u |-> data.u, pu |-> data.pu])]

\* The normalizers of the parent class (_ticker, _trade, _liquidations,
\* _funding, _candle): one canonical event, no change of the sync state or of
\* the open-interest cache.
Normalizer(name, st, cache, pair) ==
    Result(st, cache, pair, <<name>>, 0, 0, "none", <<Event(name, pair[1], None)>>)

\* _book of the parent class: the diff goes through _check_update_id, and only
\* an accepted diff is forwarded, as the first (forced) or an incremental update.
BookHandler(st, cache, pair, data) ==
    LET c == CheckedUpdate(st, pair[1], data)
    IN  IF c.raised
          THEN Result(st, cache, pair, <<"_book">>, 0, 0, "KeyError", <<>>)
          ELSE [Result(c.out.state, cache, pair, <<"_book">>, c.out.warnings, c.out.resets,
                       "none",
                       IF c.out.skip_update THEN <<>>
                       ELSE <<Event("_book", pair[1],
                                    IF c.out.forced THEN "forced" ELSE "delta")>>)
                  EXCEPT !.check = [called |-> TRUE, skip_update |-> c.out.skip_update,
                                    forced |-> c.out.forced]]

\* line 145: LOG.warning
Unexpected(st, cache, pair) == Result(st, cache, pair, <<>>, 1, 0, "none", <<>>)

\* lines 131-145: msg_type = msg.get('e') and the if / elif chain; the last
\* elif subscripts msg['e']
Dispatch_ElseCandle(st, cache, pair, data) ==
    LET msg_type == IF "e" \in data.keys THEN data.e ELSE None
    IN  IF msg_type = "bookTicker" THEN Normalizer("_ticker", st, cache, pair)
        ELSE IF msg_type = "depthUpdate" THEN BookHandler(st, cache, pair, data)
        ELSE IF msg_type = "aggTrade" THEN Normalizer("_trade", st, cache, pair)
        ELSE IF msg_type = "forceOrder" THEN Normalizer("_liquidations", st, cache, pair)
        ELSE IF msg_type = "markPriceUpdate" THEN Normalizer("_funding", st, cache, pair)
        ELSE Normalizer("_candle", st, cache, pair)

Dispatch(st, cache, pair, data) ==
    LET msg_type == IF "e" \in data.keys THEN data.e ELSE None
    IN  IF msg_type = "bookTicker" THEN Normalizer("_ticker", st, cache, pair)
        ELSE IF msg_type = "depthUpdate" THEN BookHandler(st, cache, pair, data)
        ELSE IF msg_type = "aggTrade" THEN Normalizer("_trade", st, cache, pair)
        ELSE IF msg_type = "forceOrder" THEN Normalizer("_liquidations", st, cache, pair)
        ELSE IF msg_type = "markPriceUpdate" THEN Normalizer("_funding", st, cache, pair)
        ELSE IF "e" \notin data.keys
               THEN Result(st, cache, pair, <<>>, 0, 0, "KeyError", <<>>)
        ELSE IF data.e = "kline" THEN Normalizer("_candle", st, cache, pair)
        ELSE Unexpected(st, cache, pair)

\* lines 116-145
HandleMessage(st, cache, msg) ==
    IF IsOpenInterest(msg) THEN OpenInterestHandler(st, cache, msg)
    ELSE IF "stream" \notin msg.keys
           THEN Result(st, cache, NoneStr, <<>>, 0, 0, "KeyError", <<>>)
    ELSE IF Len(SplitOnce(msg.stream, "@")) # 2
           THEN Result(st, cache, NoneStr, <<>>, 0, 0, "ValueError", <<>>)
    ELSE IF "data" \notin msg.keys
           THEN Result(st, cache, NoneStr, <<>>, 0, 0, "KeyError", <<>>)
    ELSE Dispatch(st, cache, StreamPair(msg.stream), msg.data)

\* The record of one message_handler call: the shape of the message (its keys,
\* stream name, payload keys and tag, and the polled symbol and value), what
\* the call did, the value last emitted for each symbol, and (alone) the sync
\* state and _check_update_id result of a feed that is given the streamed
\* messages only.
Handled(kind, msg, r, last_emitted, alone, alone_check) ==
    [kind |-> kind, keys |-> msg.keys, symbol |-> msg.symbol, value |-> msg.openInterest,
     stream |-> msg.stream, data_keys |-> msg.data.keys, tag |-> msg.data.e,
     pair |-> r.pair, handlers |-> r.handlers, warnings |-> r.warnings,
     resets |-> r.resets, raised |-> r.raised, events |-> r.events, check |-> r.check,
     last_emitted |-> last_emitted, alone |-> alone, alone_check |-> alone_check]

InitFeed ==
    /\ last_update_id \in [Symbols -> FeedIds]
    /\ forced = [s \in Symbols |-> FALSE]
    /\ l2_book = Symbols
    /\ awaiting = [s \in Symbols |-> FALSE]
    /\ call = CallRecord("init", "BTCUSDT", NoMsg, Current, FALSE, FALSE,
                         Outcome(Current, FALSE, FALSE, 0, 0))
    /\ open_interest = [s \in Symbols |-> None]
    /\ handled = Handled("init", Message({}, None, None, <<>>, NoData),
                         Result(Current, open_interest, NoneStr, <<>>, 0, 0, "none", <<>>),
                         [s \in Symbols |-> None], Current, NoCheck)
    /\ pure = NoPure /\ stream = NoStream

\* One message of either connection goes through message_handler.
MessageHandler(msg) ==
    \E r \in {HandleMessage(Current, open_interest, msg)} :
    \E a \in {IF "openInterest" \in msg.keys
                THEN Result(handled.alone, open_interest, NoneStr, <<>>, 0, 0, "none", <<>>)
                ELSE HandleMessage(handled.alone, open_interest, msg)} :
        LET polled == "openInterest" \in msg.keys
            emitted == [s \in Symbols |->
                          IF \E i \in 1..Len(r.events) :
                                r.events[i].channel = "open_interest" /\ r.events[i].symbol = s
                            THEN msg.openInterest
                            ELSE handled.last_emitted[s]]
        IN  /\ last_update_id' = r.state.last_update_id
            /\ forced' = r.state.forced
            /\ l2_book' = r.state.l2_book
            /\ open_interest' = r.open_interest
            /\ handled' = Handled(IF polled THEN "poll" ELSE "stream", msg, r,
                                  emitted, a.state, a.check)
            /\ UNCHANGED <<awaiting, call, pure, stream>>

NextFeed == \E msg \in FeedMessages : MessageHandler(msg)

SpecFeed == InitFeed /\ [][NextFeed]_vars

\* The polling connection alone.
NextPoll == \E msg \in OpenInterestMessages(OIValues) : MessageHandler(msg)

SpecPoll == InitFeed /\ [][NextPoll]_vars

\* Malformed messages: an envelope without 'stream' or without 'data', a stream
\* name without '@', and depth payloads lacking at least one of U, u, pu; with
\* them, one polled response that fills the cache.
ShapePayloads ==
    {Payload({"e"} \cup {k \in {"U", "u", "pu"} :
                            (k = "U" /\ U # AbsentId) \/ (k = "u" /\ u # AbsentId)
                              \/ (k = "pu" /\ pu # AbsentId)},
             "depthUpdate", U, u, pu) :
        <<U, u, pu>> \in {t \in (FeedIds \cup {AbsentId}) \X (FeedIds \cup {AbsentId})
                                   \X (FeedIds \cup {AbsentId}) :
                             AbsentId \in {t[1], t[2], t[3]}}}

ShapeMessages ==
    {Message({"openInterest", "symbol", "time"}, "10659.509", "BTCUSDT", <<>>, NoData)}
    \cup {Envelope(s, d) : s \in Symbols, d \in ShapePayloads}
    \cup {Message({"data"}, None, None, <<>>,
                  Payload({"e", "U", "u", "pu"}, "depthUpdate", 0, 0, 0)),
          Message({"stream"}, None, None, StreamOf("BTCUSDT", "depthUpdate"), NoData),
          Message({"stream", "data"}, None, None, <<"btcusdt">>,
                  Payload({"e", "U", "u", "pu"}, "depthUpdate", 0, 0, 0))}

NextShapes == \E msg \in ShapeMessages : MessageHandler(msg)

SpecShapes == InitFeed /\ [][NextShapes]_vars

\* ------------------------------------------------- properties of the feed
syncVars == <<last_update_id, forced, l2_book>>

Emitted(h) == h.events # <<>>

\* C11: a polled response emits an open-interest event exactly when its value
\* differs from the value cached for its symbol (a first response always
\* does), the event carries that symbol and value, and afterwards the cache
\* holds the value; so a response equal to the cached value emits nothing and
\* no two consecutive events of a symbol carry the same value.
C11_OpenInterestDedup ==
    [][handled'.kind = "poll" =>
          LET h == handled'
              s == handled'.symbol
              v == handled'.value
          IN  /\ Emitted(h) <=> v # open_interest[s]
              /\ open_interest[s] = None => Emitted(h)
              /\ Emitted(h) => h.events = <<Event("open_interest", s, v)>>
              /\ Emitted(h) => v # handled.last_emitted[s]
              /\ open_interest'[s] = v
              /\ \A t \in Symbols \ {s} : open_interest'[t] = open_interest[t]
      ]_vars

C11_Witness ==
    /\ handled.kind = "poll" /\ ~Emitted(handled)
    /\ open_interest[handled.symbol] = handled.value
    /\ handled.last_emitted[handled.symbol] = handled.value
    /\ \E t \in Symbols : open_interest[t] \notin {None, handled.value}

\* the handler that serves a tag
HandlerOf(tag) ==
    CASE tag = "bookTicker" -> "_ticker"
      [] tag = "depthUpdate" -> "_book"
      [] tag = "aggTrade" -> "_trade"
      [] tag = "forceOrder" -> "_liquidations"
      [] tag = "markPriceUpdate" -> "_funding"
      [] tag = "kline" -> "_candle"

IsEnvelope(h) == h.kind = "stream" /\ {"stream", "data"} \subseteq h.keys

\* C12: for a streamed envelope whose payload carries a tag, exactly the
\* handler of that tag is invoked when the tag is one of the six, and for any
\* other tag no handler is invoked, exactly one warning is produced, and the
\* sync state and the open-interest cache are unchanged.
C12_DispatchByTag ==
    [][(IsEnvelope(handled') /\ "e" \in handled'.data_keys) =>
          LET h == handled'
          IN  IF h.tag \in KnownTags
                THEN /\ h.handlers = <<HandlerOf(h.tag)>>
                     /\ h.tag # "depthUpdate" => h.warnings = 0
                ELSE /\ h.handlers = <<>> /\ h.events = <<>>
                     /\ h.warnings = 1 /\ h.raised = "none"
                     /\ UNCHANGED <<syncVars, open_interest>>
      ]_vars

C12_Witness ==
    /\ IsEnvelope(handled) /\ handled.tag = "unknownEvent"
    /\ handled.handlers = <<>> /\ handled.warnings = 1
    /\ \E s \in Symbols : forced[s]

\* C13: a message with a top-level openInterest key goes to the open-interest
\* handler and nowhere else, whatever else it carries: no unwrapping, no
\* dispatch by tag, no warning; a message without it is an envelope whose
\* symbol is the upper-cased part of the stream name before its first '@'.
C13_FirstMatchWins ==
    [][handled'.kind \in {"poll", "stream"} =>
          LET h == handled'
          IN  IF "openInterest" \in h.keys
                THEN /\ h.handlers = <<"_open_interest">>
                     /\ h.pair = NoneStr /\ ~h.check.called /\ h.warnings = 0
                     /\ UNCHANGED syncVars
                ELSE (IsEnvelope(h) /\ \E i \in 1..Len(h.stream) : h.stream[i] = "@") =>
                        LET i == CHOOSE i \in 1..Len(h.stream) :
                                    /\ h.stream[i] = "@"
                                    /\ \A j \in 1..(i - 1) : h.stream[j] # "@"
                        IN  /\ h.pair = Upper(SubSeq(h.stream, 1, i - 1))
                            /\ h.pair # SubSeq(h.stream, 1, i - 1)
      ]_vars

C13_Witness ==
    /\ handled.kind = "poll" /\ {"openInterest", "stream", "data"} \subseteq handled.keys
    /\ handled.handlers = <<"_open_interest">> /\ Emitted(handled)

\* C15: a polled open-interest message leaves every symbol's lastUpdateId,
\* synced flag and book as they were, a streamed message leaves the
\* open-interest cache as it was, and the sync state and the result of
\* _check_update_id are those of a feed given the streamed messages alone.
C15_DisjointState ==
    [][handled'.kind \in {"poll", "stream"} =>
          /\ handled'.kind = "poll" => UNCHANGED syncVars
          /\ handled'.kind = "stream" => UNCHANGED open_interest
          /\ handled'.alone = Current'
          /\ handled'.kind = "stream" => handled'.alone_check = handled'.check
          /\ handled'.kind = "poll" => ~handled'.check.called
      ]_vars

C15_Witness ==
    /\ handled.kind = "stream" /\ handled.check.called /\ ~handled.check.skip_update
    /\ handled.alone = Current
    /\ \E s \in Symbols : open_interest[s] # None
    /\ \E s \in Symbols : forced[s] /\ s # handled.pair[1]

\* C20: an envelope whose payload has a tag other than the six, or no tag at
\* all, is dropped with one warning and message_handler returns normally.
C20_UnknownTagNonFatal ==
    (IsEnvelope(handled)
        /\ ("e" \notin handled.data_keys \/ handled.tag \notin KnownTags))
      => (handled.raised = "none" /\ handled.warnings = 1 /\ handled.handlers = <<>>)

\* C14: a malformed message fails hard and leaves no trace.  An envelope
\* without 'stream' or 'data' raises; a depth diff raises when it lacks pu
\* while its symbol is Synced, when it lacks u while its symbol is Unsynced,
\* and when it lacks U (Unsynced) or u (Synced) unless the checks that run
\* first already decide to skip it as stale or as a gap.  Whenever the call
\* raises, lastUpdateId, the synced flag, the book and the open-interest cache
\* of every symbol are as before, and no resync, warning or event was produced.
C14_MalformedFailsHard ==
    [][handled'.kind = "stream" =>
          LET h == handled'
              depth == IsEnvelope(h) /\ h.raised # "ValueError" /\ h.tag = "depthUpdate"
              synced == forced[h.pair[1]]
          IN  /\ ~IsEnvelope(h) => h.raised = "KeyError"
              /\ (depth /\ synced /\ "pu" \notin h.data_keys) => h.raised = "KeyError"
              /\ (depth /\ ~synced /\ "u" \notin h.data_keys) => h.raised = "KeyError"
              /\ (depth /\ ~synced /\ "U" \notin h.data_keys)
                    => \/ h.raised = "KeyError"
                       \/ (h.check.called /\ h.check.skip_update /\ h.resets = 0)
              /\ (depth /\ synced /\ "u" \notin h.data_keys)
                    => \/ h.raised = "KeyError"
                       \/ (h.check.called /\ h.check.skip_update /\ h.resets = 1)
              /\ h.raised # "none" =>
                    /\ UNCHANGED <<syncVars, open_interest>>
                    /\ h.events = <<>> /\ h.resets = 0 /\ h.warnings = 0
                    /\ ~h.check.called
      ]_vars

C14_Witness ==
    /\ handled.kind = "stream" /\ handled.raised = "KeyError"
    /\ handled.tag = "depthUpdate" /\ IsEnvelope(handled)
    /\ handled.data_keys = {"e", "U", "pu"}
    /\ forced[handled.pair[1]]
    /\ \E s \in Symbols : open_interest[s] # None

\* --------------------------------- a diff stream for one symbol, lines 68-83
MaxStream == 4

MaxStreamId == 3

StreamIds == 0..MaxStreamId

StreamSymbol == "BTCUSDT"

\* The symbol is Unsynced with the snapshot's lastUpdateId as seed; nothing fed yet.
InitStream ==
    /\ \E seed \in StreamIds :
         /\ last_update_id = [s \in Symbols |-> IF s = StreamSymbol THEN seed ELSE 0]
         /\ stream = [seed |-> seed, fed |-> 0, prev_u |-> 0, advancing |-> TRUE,
                      bracket_seen |-> FALSE, before |-> 0, after |-> 0,
                      prior_silent |-> TRUE, bracket_applied |-> FALSE,
                      later_applied |-> TRUE, resynced |-> FALSE]
    /\ forced = [s \in Symbols |-> FALSE]
    /\ l2_book = Symbols
    /\ awaiting = [s \in Symbols |-> FALSE]
    /\ call = CallRecord("init", "BTCUSDT", NoMsg, Current, FALSE, FALSE,
                         Outcome(Current, FALSE, FALSE, 0, 0))
    /\ FeedIdle /\ pure = NoPure

\* The next diff of a gap-free stream (its pu is the previous diff's u, and
\* U <= u) goes through _check_update_id.  History kept in stream: whether
\* every diff so far started after the previous one ended (U > pu), whether a
\* diff bracketing the seed has been fed, how many diffs came before and after
\* it, and what the engine did with them.
FeedDiff(msg) ==
    /\ stream.fed < MaxStream
    /\ msg.U <= msg.u
    /\ stream.fed > 0 => msg.pu = stream.prev_u
    /\ \E out \in {CheckUpdateId(Current, StreamSymbol, msg)} :
         LET brackets == msg.U <= stream.seed /\ stream.seed <= msg.u
             seen     == stream.bracket_seen
             silent   == out.skip_update /\ out.resets = 0 /\ out.warnings = 0
             applied  == ~out.skip_update
         IN  /\ last_update_id' = out.state.last_update_id
             /\ forced' = out.state.forced
             /\ l2_book' = out.state.l2_book
             /\ stream' =
                  [seed |-> stream.seed,
                   fed |-> stream.fed + 1,
                   prev_u |-> msg.u,
                   advancing |-> stream.advancing /\ (stream.fed = 0 \/ msg.U > msg.pu),
                   bracket_seen |-> seen \/ brackets,
                   before |-> IF ~seen /\ ~brackets THEN stream.before + 1 ELSE stream.before,
                   after |-> IF seen THEN stream.after + 1 ELSE stream.after,
                   prior_silent |-> IF ~seen /\ ~brackets
                                      THEN stream.prior_silent /\ silent
                                      ELSE stream.prior_silent,
                   bracket_applied |-> IF ~seen /\ brackets
                                         THEN applied /\ out.state.forced[StreamSymbol]
                                         ELSE stream.bracket_applied,
                   later_applied |-> IF seen THEN stream.later_applied /\ applied
                                     ELSE stream.later_applied,
                   resynced |-> stream.resynced \/ out.resets > 0]
    /\ UNCHANGED <<awaiting, call, feedVars, pure>>

NextStream == \E msg \in [U : StreamIds, u : StreamIds, pu : StreamIds] : FeedDiff(msg)

SpecStream == InitStream /\ [][NextStream]_vars

StreamAsClaimed ==
    /\ stream.prior_silent /\ stream.bracket_applied /\ stream.later_applied
    /\ ~stream.resynced /\ forced[StreamSymbol]

\* C19 as stated: on a stream in which each diff's pu is the previous diff's
\* u and U <= u, once the diff bracketing the seed has been fed, every earlier
\* diff was skipped silently, the bracketing diff was applied and made the
\* symbol Synced, every later diff was applied, and no resync was signaled.
C19_Original == (stream.fed > 0 /\ stream.bracket_seen) => StreamAsClaimed

\* C19 amended: the same, for a stream whose diffs also start after the
\* previous diff ended (U greater than pu, as the exchange numbers them).
C19_BracketingStreamSyncs ==
    (stream.fed > 0 /\ stream.bracket_seen /\ stream.advancing) => StreamAsClaimed

C19_Witness ==
    /\ stream.fed > 0 /\ stream.bracket_seen /\ stream.advancing
    /\ stream.before > 0 /\ stream.after > 0
    /\ StreamAsClaimed
    /\ last_update_id[StreamSymbol] > stream.seed

====
